---- MODULE Spec2Model ----
(***************************************************************************)
(* Model of models/hyperseg_v1_0_unify.py: the signal-channel budget       *)
(* allocator divide_feature, the MultiScaleDecoder constructor and forward *)
(* pass, the coordinate cache and the patch-convolution shape protocol.    *)
(*                                                                         *)
(* Arithmetic note for divide_feature: the source computes                 *)
(* curr_out_feat_size * units_feat_ratio in double precision. For the      *)
(* operand sizes drawn here the floor of that product equals the floor of  *)
(* the exact rational k*n*units/sum(out_features), so the model uses the   *)
(* exact rational (a numerator and a denominator).                         *)
(***************************************************************************)
EXTENDS Integers, Sequences, FiniteSets, TLC

VARIABLES
    \* ---- divide_feature(in_feature, out_features, min_unit) ----
    in_feature, out_features, min_unit,
    df_status,              \* "call" | "returned" | "AssertionError"
    divided_in_features,    \* the returned array (<<>> before the return)
    \* ---- one patch convolution applied to a feature tensor ----
    patch_kind,             \* the class whose forward/conv is applied
    patch_layer,            \* the module's construction-time fields
    patch_x,                \* the feature tensor's shape [b, c, h, w]
    patch_weight,           \* the weight tensor's grid [fh, fw]
    patch_status,           \* "call" | "returned" | "RuntimeError"
    patch_out,              \* the output tensor's shape (<<>> when none)
    \* ---- MultiScaleDecoder: constructor arguments ----
    feat_channels, signal_channels, level_channels, kernel_sizes,
    level_layers, with_out_fc, weight_groups, coords_res,
    unify_level,            \* <<>> for None, <<n>> for the integer n
    \* ---- MultiScaleDecoder: the object ----
    dec_status,             \* "new" | "built" | the exception __init__ raised
    level_blocks,           \* per level, the sequence of its stages
    weight_blocks,          \* the WeightLayers
    ranges,                 \* self._ranges
    out_fc,                 \* <<>> for None, <<module>> otherwise
    buffers,                \* the (h, w) keys of the registered coord buffers
    \* ---- MultiScaleDecoder.forward(x, s) ----
    fwd_pc,                 \* "idle" | "level" | "last" | "returned" | "RuntimeError"
    fwd_level,              \* the loop variable level
    fwd_x, fwd_s,           \* x: the feature pyramid's shapes; s: the signal's shape
    fwd_p,                  \* p: <<>> for None, <<shape>> otherwise
    fwd_w,                  \* w: <<>> before any weights are generated, else
                            \* <<[block, nc]>>: the generating block, the channels
    trace,                  \* this pass's generator and level-block invocations
    passes,                 \* forward passes started so far
    coord_log,              \* every get_image_coordinates call: key, computed?
    \* ---- one WeightLayer: init_signal2weights, then forward ----
    weight_layer,           \* the WeightLayer's fields (<<>> when none)
    wl_args,                \* init_signal2weights' arguments (<<>> when none)
    wl_status,              \* "new" | "initialised" | "ValueError" | "applied"
    wl_out,                 \* <<>>, or <<[generated, returned]>>: the channels
                            \* the convolution generates and forward returns
    \* ---- concurrent get_image_coordinates calls on one decoder ----
    coord_buf,              \* the registered buffers' contents, by (h, w) key
    gic_pc,                 \* per thread: "idle" | "hasattr" | "cached" | "x"
                            \*             | "y" | "stack"
    gic_arg,                \* per thread: the call's arguments [b, h, w]
    gic_local,              \* per thread: the call's locals x, y
    gic_calls,              \* calls started so far
    gic_results             \* the returned values: [key, b, grid]

dfVars == <<in_feature, out_features, min_unit, df_status, divided_in_features>>
patchVars == <<patch_kind, patch_layer, patch_x, patch_weight, patch_status,
               patch_out>>

argVars == <<feat_channels, signal_channels, level_channels, kernel_sizes,
             level_layers, with_out_fc, weight_groups, coords_res, unify_level>>
objVars == <<dec_status, level_blocks, weight_blocks, ranges, out_fc, buffers>>
fwdVars == <<fwd_pc, fwd_level, fwd_x, fwd_s, fwd_p, fwd_w, trace, passes,
             coord_log>>
wlVars == <<weight_layer, wl_args, wl_status, wl_out>>
gicVars == <<gic_pc, gic_arg, gic_local, gic_calls, gic_results>>
decVars == <<argVars, objVars, fwdVars, wlVars, coord_buf, gicVars>>

vars == <<dfVars, patchVars, decVars>>

---------------------------------------------------------------------------
\* Bounds of the model
MaxLen      == 3    \* longest out_features list
MaxFeat     == 3    \* largest out_features entry
MaxIn       == 8    \* largest in_feature
MaxMinUnit  == 3    \* largest min_unit
MaxSide     == 5    \* largest height / width of a patch-convolution input
MaxGrid     == 3    \* largest weight grid height / width
MaxOutNc    == 5    \* largest out_nc of a patch-convolution module
MaxLevels   == 3    \* most decoder levels
MaxPasses   == 2    \* most forward passes of one decoder
MaxCalls    == 3    \* most concurrent-run get_image_coordinates calls
MaxTarget   == 8    \* largest target_params of the WeightLayer under test
MaxGroups   == 4    \* largest groups of the WeightLayer under test
MaxSignal   == 6    \* largest signal_channels of the WeightLayer under test

\* Input sets of the decoder
FeatChannelSet  == {1}
LevelChannelSet == {2, 3}
KernelSizeSet   == {1, 3}
LevelLayersSet  == {1, 2}
SignalChannelSet == {8}
ResSet          == {<<8, 8>>}                \* x[0]'s height and width
GridSet         == {<<1, 1>>, <<2, 2>>}      \* the signal's height and width
\* Input sets of the runs that exercise the coordinate cache
CacheResSet     == {<<8, 8>>, <<4, 4>>, <<8, 4>>}
CacheGridSet    == {<<1, 1>>}
CacheCoordsRes  == {<<>>, <<<<8, 8>>>>, <<<<4, 4>>>>, <<<<8, 4>>, <<4, 4>>>>}

\* Input sets of the runs with concurrent get_image_coordinates calls
Threads         == {1, 2}
CoordKeySet     == {<<1, 2>>, <<2, 4>>}         \* the (h, w) requested
BatchSet        == {1, 2}                       \* the b requested
CoordsResSet    == {<<>>, <<<<2, 4>>>>}         \* coords_res

\* Input sets of the runs with per-generator group factors
GroupsLevelChannels == {<<2>>, <<2, 3>>, <<3, 2, 2>>}
GroupFactorSet      == {1, 2, 3}
GroupsSignalSet     == {3, 4, 6, 12}

\* Program constants
NumClasses  == 3    \* num_classes (default)
ExpandRatio == 1    \* expand_ratio (default)
Groups      == 1    \* groups (default)

---------------------------------------------------------------------------
\* Helpers
Max(a, b) == IF a >= b THEN a ELSE b
Min(a, b) == IF a <= b THEN a ELSE b

RECURSIVE SeqSum(_)
SeqSum(s) == IF s = <<>> THEN 0 ELSE Head(s) + SeqSum(Tail(s))

SeqsUpTo(S, n) == UNION {[1..k -> S] : k \in 1..n}

---------------------------------------------------------------------------
\* divide_feature

\* line 620: the assert's condition
DivisibleMutant(inf, mu) == TRUE
Divisible(inf, mu) == inf % mu = 0

\* lines 622-624: argsort + groupby: one (k, indices) group per distinct
\* value, in ascending order of k
RECURSIVE AscendingKeys(_)
AscendingKeys(S) ==
    IF S = {} THEN <<>>
    ELSE LET m == CHOOSE x \in S : \A y \in S : x <= y
         IN  <<m>> \o AscendingKeys(S \ {m})

GroupBy(out) ==
    LET ks == AscendingKeys({out[i] : i \in DOMAIN out})
    IN  [p \in DOMAIN ks |->
            [k |-> ks[p], idx |-> {i \in DOMAIN out : out[i] = ks[p]}]]

\* line 625: the sort key x[0] * len(x[1])
GroupWeight(g) == g.k * Cardinality(g.idx)

\* line 625: list.sort(key, reverse=True) is stable: groups of equal weight
\* keep their ascending-k order
SortGroups(gs) ==
    LET rank(i) == 1 + Cardinality({j \in DOMAIN gs :
                        \/ GroupWeight(gs[j]) > GroupWeight(gs[i])
                        \/ GroupWeight(gs[j]) = GroupWeight(gs[i]) /\ j < i})
    IN  [p \in DOMAIN gs |-> gs[CHOOSE i \in DOMAIN gs : rank(i) = p]]

OutFeatGroups(out) == SortGroups(GroupBy(out))

\* lines 633-637: the units added to a group that is not the last one.
\* x = k*n*units/total is units_feat_ratio * curr_out_feat_size.
CurrUnitsMutant(k, n, u, total, rem) ==
    LET num == k * n * u
        fl  == IF num >= n * total THEN (num \div (total * n)) * n ELSE n
    IN  Min(fl, rem)
CurrUnits(k, n, u, total, rem) ==
    LET num == k * n * u
        \* max(x, n) // n * n - n
        fl  == IF num >= n * total THEN (num \div (total * n)) * n - n
               ELSE (n \div n) * n - n
    IN  Min(fl, rem)

\* lines 631-643: the loop over the groups, from group i on
RECURSIVE GroupLoop(_, _, _, _, _, _)
GroupLoop(groups, i, ogu, rem, u, total) ==
    IF i > Len(groups) THEN ogu
    ELSE IF i < Len(groups)
    THEN LET n    == Cardinality(groups[i].idx)
             cu   == CurrUnits(groups[i].k, n, u, total, rem)
             ogu2 == [ogu EXCEPT ![i] = @ + cu]
             rem2 == rem - cu
         IN  IF rem2 = 0 THEN ogu2
             ELSE GroupLoop(groups, i + 1, ogu2, rem2, u, total)
    ELSE [ogu EXCEPT ![i] = @ + rem]

\* lines 629-643: out_group_units after the loop
OutGroupUnits(inf, out, mu) ==
    LET u      == inf \div mu
        groups == OutFeatGroups(out)
        ogu0   == [i \in DOMAIN groups |-> Cardinality(groups[i].idx)]
        rem0   == u - SeqSum(ogu0)
    IN  GroupLoop(groups, 1, ogu0, rem0, u, SeqSum(out))

\* line 649: one consumer's share of its group's units
ShareMutant(gu, n, mu) == gu \div n
Share(gu, n, mu) == (gu \div n) * mu

\* lines 646-651: the returned array
SpreadMutant(out, groups, ogu, mu) ==
    [j \in DOMAIN out |->
        LET i == CHOOSE g \in DOMAIN groups : j \in groups[g].idx
            n == Cardinality(groups[i].idx)
            first == CHOOSE a \in groups[i].idx : \A b \in groups[i].idx : a <= b
        IN  IF j = first THEN (ogu[i] - (n - 1) * (ogu[i] \div n)) * mu
            ELSE Share(ogu[i], n, mu)]
Spread(out, groups, ogu, mu) ==
    [j \in DOMAIN out |->
        LET i == CHOOSE g \in DOMAIN groups : j \in groups[g].idx
        IN  Share(ogu[i], Cardinality(groups[i].idx), mu)]

DivideFeature(inf, out, mu) ==
    Spread(out, OutFeatGroups(out), OutGroupUnits(inf, out, mu), mu)


---------------------------------------------------------------------------
\* Patch convolutions, on tensor shapes. A shape is [b, c, h, w]; a result
\* is a shape plus err, TRUE when the call raises.

Shape(b, c, h, w) == [b |-> b, c |-> c, h |-> h, w |-> w]
Raised == [err |-> TRUE, b |-> 0, c |-> 0, h |-> 0, w |-> 0]
Result(b, c, h, w) == [err |-> FALSE, b |-> b, c |-> c, h |-> h, w |-> w]

\* Tensor.unfold(dim, size, step): the number of windows
UnfoldCount(len, size, step) == ((len - size) \div step) + 1

\* lines 313-340: the fields of a HyperPatchInvertedResidual (stride 1,
\* padding (1, 1), padding_mode 'reflect')
InvertedResidual(in_nc, out_nc, kernel_size, expand_ratio) ==
    LET hidden_dim == in_nc * expand_ratio
    IN  [kind |-> "HyperPatchInvertedResidual",
         in_nc |-> in_nc, out_nc |-> out_nc, kernel_size |-> kernel_size,
         padding |-> 1, groups |-> 1, hidden_dim |-> hidden_dim,
         use_res_connect |-> (in_nc = out_nc),
         hyper_params |-> in_nc * hidden_dim
                          + hidden_dim * kernel_size * kernel_size
                          + hidden_dim * out_nc]

\* lines 469-481: the fields of a HyperPatchNoPadding
NoPadding(in_channels, out_channels, kernel_size, groups) ==
    [kind |-> "HyperPatchNoPadding",
     in_nc |-> in_channels, out_nc |-> out_channels,
     kernel_size |-> kernel_size, padding |-> 0, groups |-> groups,
     hidden_dim |-> 0, use_res_connect |-> FALSE,
     hyper_params |-> out_channels * (in_channels \div groups)
                      * kernel_size * kernel_size]

\* lines 530-534: the fields of a HyperPatchConv2d (a HyperPatch around a
\* MetaConv2d)
PatchConv2d(in_channels, out_channels, kernel_size, padding, groups) ==
    [kind |-> "HyperPatch",
     in_nc |-> in_channels, out_nc |-> out_channels,
     kernel_size |-> kernel_size, padding |-> padding, groups |-> groups,
     hidden_dim |-> 0, use_res_connect |-> FALSE,
     hyper_params |-> out_channels * (in_channels \div groups)
                      * kernel_size * kernel_size]

\* lines 342-383: HyperPatchInvertedResidual.conv
InvertedResidualConv(m, x, fh, fw) ==
    LET b  == x.b
        ph == x.h \div fh
        pw == x.w \div fw
        kh == ph + m.padding * 2
        kw == pw + m.padding * 2
        \* line 350: reflect padding needs the pad smaller than the side
        padOk == m.padding < x.h /\ m.padding < x.w
        \* line 355: unfold(1, kh, ph).unfold(2, kw, pw)
        nh == UnfoldCount(x.h + 2 * m.padding, kh, ph)
        nw == UnfoldCount(x.w + 2 * m.padding, kw, pw)
        c1 == b * nh * nw * x.c
        \* line 364: conv2d with groups = b*fh*fw, in_nc inputs per group
        conv1Ok == c1 = b * fh * fw * m.in_nc
        \* line 372: depthwise k x k convolution, no padding
        oh == kh - m.kernel_size + 1
        ow == kw - m.kernel_size + 1
        \* line 373: view(b*fh*fw, -1, ph, pw)
        view2Ok == oh >= 1 /\ ow >= 1
                   /\ (m.hidden_dim * oh * ow) % (ph * pw) = 0
                   /\ (m.hidden_dim * oh * ow) \div (ph * pw) = m.hidden_dim
        \* line 381: view(b, fh, fw, -1, ph, pw) ... reshape(b, -1, h, w)
        total == b * fh * fw * m.out_nc * ph * pw
    IN  IF ~padOk THEN Raised
        ELSE IF ph < 1 \/ pw < 1 THEN Raised
        ELSE IF ~conv1Ok THEN Raised
        ELSE IF ~view2Ok THEN Raised
        ELSE IF total % (b * x.h * x.w) # 0 THEN Raised
        ELSE Result(b, total \div (b * x.h * x.w), x.h, x.w)

\* lines 385-389: HyperPatchInvertedResidual.forward
InvertedResidualForward(m, x, fh, fw) ==
    LET y == InvertedResidualConv(m, x, fh, fw)
    IN  IF y.err \/ ~m.use_res_connect THEN y
        \* x + conv(x): the channel counts must agree or broadcast
        ELSE IF y.c = x.c \/ y.c = 1 THEN Result(x.b, x.c, x.h, x.w)
        ELSE Raised

\* lines 483-494: HyperPatchNoPadding.forward
NoPaddingForward(m, x, fh, fw) ==
    LET b  == x.b
        ph == x.h \div fh
        pw == x.w \div fw
        \* line 490: view(b, c, fh, ph, fw, pw)
        viewOk == b * x.c * x.h * x.w = b * x.c * fh * ph * fw * pw
        \* line 491: conv2d with groups = b*fh*fw*groups
        convOk == /\ b * fh * fw * x.c
                        = b * fh * fw * m.groups * (m.in_nc \div m.groups)
                  /\ ph >= m.kernel_size /\ pw >= m.kernel_size
        oh == ph - m.kernel_size + 1
        ow == pw - m.kernel_size + 1
        \* line 492: view(b, fh, fw, -1, ph, pw).reshape(b, -1, h, w)
        total == b * fh * fw * m.out_nc * oh * ow
    IN  IF ~viewOk THEN Raised
        ELSE IF ~convOk THEN Raised
        ELSE IF total % (b * fh * fw * ph * pw) # 0 THEN Raised
        ELSE IF total % (b * x.h * x.w) # 0 THEN Raised
        ELSE Result(b, total \div (b * x.h * x.w), x.h, x.w)

\* The hyper_module of a HyperPatch (a MetaConv2d): every element of the
\* flattened batch is convolved with its own generated kernel.
MetaConv2dForward(m, n, c, kh, kw, nWeights) ==
    IF n # nWeights \/ c # m.in_nc
          \/ kh < m.kernel_size \/ kw < m.kernel_size
    THEN Raised
    ELSE Result(n, m.out_nc, kh - m.kernel_size + 1, kw - m.kernel_size + 1)

\* lines 514-527: HyperPatch.forward
HyperPatchForward(m, x, fh, fw) ==
    LET b  == x.b
        ph == x.h \div fh
        pw == x.w \div fw
        kh == ph + m.padding * 2
        kw == pw + m.padding * 2
        \* line 520
        padOk == m.padding = 0 \/ (m.padding < x.h /\ m.padding < x.w)
        \* line 521: unfold(x, (kh, kw), stride=(ph, pw))
        nh == UnfoldCount(x.h + 2 * m.padding, kh, ph)
        nw == UnfoldCount(x.w + 2 * m.padding, kw, pw)
        \* line 523
        y  == MetaConv2dForward(m, b * nh * nw, x.c, kh, kw, b * fh * fw)
        \* line 524: view(b, fh*fw, -1, ph*pw)
        total == y.b * y.c * y.h * y.w
        \* line 525: fold(x, (h, w), kernel_size=(ph, pw), stride=(ph, pw))
        foldBlocks == UnfoldCount(x.h, ph, ph) * UnfoldCount(x.w, pw, pw)
    IN  IF ph < 1 \/ pw < 1 THEN Raised
        ELSE IF ~padOk THEN Raised
        ELSE IF y.err THEN Raised
        ELSE IF total % (b * fh * fw * ph * pw) # 0 THEN Raised
        ELSE IF foldBlocks # fh * fw THEN Raised
        ELSE Result(b, total \div (b * fh * fw * ph * pw), x.h, x.w)

\* the forward of one dynamic stage, by class
StageForward(m, x, fh, fw) ==
    IF m.kind = "HyperPatchInvertedResidual"
    THEN InvertedResidualForward(m, x, fh, fw)
    ELSE IF m.kind = "HyperPatchNoPadding" THEN NoPaddingForward(m, x, fh, fw)
    ELSE HyperPatchForward(m, x, fh, fw)

\* the operation the shape-mismatch property names, by class
PatchApply(m, x, fh, fw) ==
    IF m.kind = "HyperPatchInvertedResidual"
    THEN InvertedResidualConv(m, x, fh, fw)
    ELSE StageForward(m, x, fh, fw)


---------------------------------------------------------------------------
\* MultiScaleDecoder.__init__

Reverse(q) == [i \in DOMAIN q |-> q[Len(q) + 1 - i]]
Last(q) == q[Len(q)]
SeqRange(q) == {q[i] : i \in DOMAIN q}
SeqMax(q) == CHOOSE m \in SeqRange(q) : \A y \in SeqRange(q) : m >= y

RECURSIVE Pow2(_)
Pow2(n) == IF n = 0 THEN 1 ELSE 2 * Pow2(n - 1)

\* line 137: self.levels
Levels == Len(level_channels)

\* lines 589-593: make_hyper_patch_conv2d_block picks the class by padding
MakeHyperPatchConv2dBlock(in_nc, out_nc, kernel_size, groups) ==
    IF kernel_size \div 2 = 0
    THEN NoPadding(in_nc, out_nc, kernel_size, groups)
    ELSE PatchConv2d(in_nc, out_nc, kernel_size, kernel_size \div 2, groups)

\* lines 160-167: one stage of a level
MakeStage(prev_channels, curr_out_ngf, kernel_size) ==
    IF kernel_size > 1
    THEN InvertedResidual(prev_channels + 2, curr_out_ngf, kernel_size,
                          ExpandRatio)
    ELSE MakeHyperPatchConv2dBlock(prev_channels + 2, curr_out_ngf,
                                   kernel_size, Groups)

\* lines 157-168: the stages of level lvl, from stage layer on
RECURSIVE BuildLayers(_, _, _, _)
BuildLayers(lvl, layer, prev_channels, curr_out_ngf) ==
    IF layer >= level_layers THEN <<>>
    ELSE LET out == IF (~with_out_fc) /\ lvl = Levels - 1
                        /\ layer = level_layers - 1
                    THEN NumClasses ELSE curr_out_ngf
         IN  <<MakeStage(prev_channels, out, kernel_sizes)>>
                 \o BuildLayers(lvl, layer + 1, out, out)

\* hyper_params of a MetaSequential: the sum over its stages
MetaSequentialHyperParams(layers) ==
    SeqSum([i \in DOMAIN layers |-> layers[i].hyper_params])

\* lines 288-293: WeightLayer.__init__ (0 stands for None)
WeightLayer(target_params) ==
    [target_params |-> target_params, signal_channels |-> 0,
     signal_index |-> 0, groups |-> 0, weight_channels |-> 0]

\* line 175: self._ranges.append(self._ranges[-1] + hyper_params)
RangesAppendMutant(r, hp) == Append(r, hp)
RangesAppend(r, hp) == Append(r, Last(r) + hp)

\* line 177: sum of b.hyper_params over self.level_blocks[unify_level - 1:]
SharedHyperParams(blocks, u) ==
    SeqSum([j \in 1..(Len(blocks) - (u - 1)) |->
                MetaSequentialHyperParams(blocks[j + u - 1])])

\* lines 149-178: the loop over the levels, from level lvl on (unify_level
\* is the integer u)
RECURSIVE BuildLevels(_, _, _, _)
BuildLevels(lvl, prev_channels, u, st) ==
    IF lvl >= Levels THEN [st EXCEPT !.prev_channels = prev_channels]
    ELSE LET curr_ngf     == Reverse(feat_channels)[lvl + 1]
             curr_out_ngf == level_channels[lvl + 1]
             layers == BuildLayers(lvl, 0, prev_channels + curr_ngf,
                                   curr_out_ngf)
             blocks == Append(st.level_blocks, layers)
             hp     == MetaSequentialHyperParams(layers)
             st2 == IF lvl < u - 1
                    THEN [st EXCEPT !.level_blocks = blocks,
                             !.weight_blocks = Append(@, WeightLayer(hp))]
                    ELSE IF lvl = Levels - 1
                    THEN [st EXCEPT !.level_blocks = blocks,
                             !.ranges = RangesAppend(@, hp),
                             !.weight_blocks =
                                 Append(@, WeightLayer(SharedHyperParams(blocks, u)))]
                    ELSE [st EXCEPT !.level_blocks = blocks,
                             !.ranges = RangesAppend(@, hp)]
         IN  BuildLevels(lvl + 1, Last(layers).out_nc, u, st2)

\* lines 181-187: the output head (out_kernel_size = 1)
OutFc(prev_channels) ==
    IF with_out_fc
    THEN <<PatchConv2d(prev_channels, NumClasses, 1, 1 \div 2, 1)>>
    ELSE <<>>

\* lines 190-195: the keys of the coordinate buffers registered up front
PrePopulated ==
    {<<res[1] \div Pow2(i), res[2] \div Pow2(i)>> :
        res \in SeqRange(coords_res), i \in 0..(Levels - 1)}

\* line 465: next_multiply: type(x)(np.ceil(x / base) * base), the ceiling of
\* the true quotient times base
NextMultiplyMutant(n, base) == (n \div base) * base
NextMultiply(n, base) == ((n + base - 1) \div base) * base

\* lines 295-299: WeightLayer.init_signal2weights
WeightLayerInit(wl, sc, signal_index, groups) ==
    [wl EXCEPT !.signal_channels = sc, !.signal_index = signal_index,
               !.groups = groups,
               !.weight_channels = NextMultiply(wl.target_params, groups)]

\* line 282: signal_index += curr_feature_nc
NextSignalIndexMutant(signal_index, curr_feature_nc) == signal_index
NextSignalIndex(signal_index, curr_feature_nc) ==
    signal_index + curr_feature_nc

\* lines 275-284: init_signal2weights over self.weight_blocks
RECURSIVE InitSignal2Weights(_, _, _, _, _)
InitSignal2Weights(blocks, i, signal_features, signal_index, groups) ==
    IF i > Len(blocks) THEN blocks
    ELSE LET curr_feature_nc == signal_features[i]
         IN  InitSignal2Weights(
                 [blocks EXCEPT ![i] = WeightLayerInit(@, curr_feature_nc,
                                                      signal_index, groups[i])],
                 i + 1, signal_features,
                 NextSignalIndex(signal_index, curr_feature_nc), groups)

\* line 198: get_hyper_params
GetHyperParams(blocks) == [i \in DOMAIN blocks |-> blocks[i].target_params]

\* lines 145-187: the object after the level loop and the output head
Built(u) ==
    LET st == BuildLevels(0, 0, u,
                  [level_blocks |-> <<>>, weight_blocks |-> <<>>,
                   ranges |-> <<0>>, prev_channels |-> 0])
    IN  [level_blocks |-> st.level_blocks, weight_blocks |-> st.weight_blocks,
         ranges |-> st.ranges, out_fc |-> OutFc(st.prev_channels)]

\* lines 198-201: the weight blocks with their signal slices assigned
Signalled(blocks) ==
    InitSignal2Weights(blocks, 1,
        DivideFeature(signal_channels, GetHyperParams(blocks),
                      SeqMax(weight_groups)),
        0, weight_groups)

\* line 299: the WeightLayers whose nn.Conv2d cannot be built: in_channels
\* is not divisible by groups (ValueError) or is negative (RuntimeError: a
\* weight tensor of negative size). A convolution with no input channels is
\* built: its weight is an empty tensor.
BadConvs(blocks) ==
    {i \in DOMAIN blocks :
        \/ Signalled(blocks)[i].signal_channels % weight_groups[i] # 0
        \/ Signalled(blocks)[i].signal_channels < 0}

\* how __init__ ends: "built", or the exception it raises
CtorStatus ==
    IF unify_level = <<>> THEN "TypeError"      \* line 172: None - 1
    ELSE IF weight_groups = <<>> THEN "ValueError"      \* line 199
    ELSE LET blocks == Built(unify_level[1]).weight_blocks
         IN  IF ~Divisible(signal_channels, SeqMax(weight_groups))
             THEN "AssertionError"                      \* line 620
             ELSE IF Len(weight_groups) < Len(blocks)
             THEN "IndexError"                          \* line 280
             ELSE IF BadConvs(blocks) # {}
             THEN LET i == CHOOSE j \in BadConvs(blocks) :
                               \A l \in BadConvs(blocks) : j <= l
                  IN  IF Signalled(blocks)[i].signal_channels
                            % weight_groups[i] # 0
                      THEN "ValueError"                 \* line 299
                      ELSE "RuntimeError"               \* line 299
             ELSE "built"


---------------------------------------------------------------------------
\* MultiScaleDecoder.forward

\* a level's MetaSequential applied to a tensor: its stages in sequence
RECURSIVE StagesForward(_, _, _, _, _)
StagesForward(layers, i, xin, fh, fw) ==
    IF i > Len(layers) THEN Result(xin.b, xin.c, xin.h, xin.w)
    ELSE LET y == StageForward(layers[i], xin, fh, fw)
         IN  IF y.err THEN Raised
             ELSE StagesForward(layers, i + 1, Shape(y.b, y.c, y.h, y.w),
                                fh, fw)

\* the channel counts the stages of a MetaSequential receive, stage by stage,
\* up to and including the first stage that raises
RECURSIVE StageInputs(_, _, _, _, _)
StageInputs(layers, i, xin, fh, fw) ==
    IF i > Len(layers) THEN <<>>
    ELSE LET y == StageForward(layers[i], xin, fh, fw)
         IN  IF y.err THEN <<xin.c>>
             ELSE <<xin.c>> \o StageInputs(layers, i + 1,
                                           Shape(y.b, y.c, y.h, y.w), fh, fw)

\* line 244 / 249: level_block(p, weights), weights having wn channels
LevelBlockForward(layers, xin, fh, fw, wn) ==
    IF wn < MetaSequentialHyperParams(layers) THEN Raised
    ELSE StagesForward(layers, 1, xin, fh, fw)

\* line 227: the index of the WeightLayer of a level
WeightBlockIndex(lvl, u) == Min(lvl, u - 1)

\* lines 242-247: whether the level's pass through the loop body calls
\* weight_block(s)
GeneratesMutant(lvl, u) == TRUE
Generates(lvl, u) == lvl < u - 1 \/ lvl = u - 1

\* lines 248-249: the channel slice of w a unified level uses
UnifiedSlice(lvl, u) ==
    LET i == lvl - u + 1
    IN  [lo |-> ranges[i + 1], hi |-> ranges[i + 2]]

\* lines 301-306: the channels WeightLayer.forward returns for a signal with
\* sc channels (0 when the grouped convolution raises)
ApplySignal2Weights(wl, sc) ==
    IF Min(sc, wl.signal_index + wl.signal_channels) - Min(sc, wl.signal_index)
           # wl.signal_channels
    THEN 0
    ELSE Min(wl.weight_channels, wl.target_params)

\* lines 211-220: get_image_coordinates: TRUE when the grid is computed,
\* FALSE when it is read from a registered buffer
ComputesGrid(key) == key \notin buffers

\* lines 213-220: the buffers after a get_image_coordinates call
BuffersAfterGetMutant(key) == buffers \cup {key}
BuffersAfterGet(key) == buffers

---------------------------------------------------------------------------
\* Coordinate grids. A value -1 + 2k/(steps-1) of torch.linspace(-1, 1, steps)
\* is the pair <<numerator, denominator>>; a grid is indexed [channel][row]
\* [column].

\* lines 205-206 and 216-217: torch.linspace(-1, 1, steps=steps)
LinSpace(steps) ==
    [k \in 1..steps |->
        IF steps = 1 THEN <<-1, 1>>
        ELSE <<2 * (k - 1) - (steps - 1), steps - 1>>]

\* line 207: stack(meshgrid(y, x)[::-1], dim=0): channel 1 is x along the
\* columns, channel 2 is y along the rows
Stack(gx, gy) ==
    [c \in 1..2 |->
        [i \in 1..Len(gy) |->
            [j \in 1..Len(gx) |-> IF c = 1 THEN gx[j] ELSE gy[i]]]]

\* lines 204-209: cache_image_coordinates(h, w)
CacheImageCoordinates(h, w) == Stack(LinSpace(w), LinSpace(h))

\* line 218: the grid get_image_coordinates builds from its locals y and x
GetStackMutant(gx, gy) ==
    [c \in 1..2 |->
        [i \in 1..Len(gy) |->
            [j \in 1..Len(gx) |-> IF c = 1 THEN gy[i] ELSE gx[j]]]]
GetStack(gx, gy) ==
    [c \in 1..2 |->
        [i \in 1..Len(gy) |->
            [j \in 1..Len(gx) |-> IF c = 1 THEN gx[j] ELSE gy[i]]]]

\* lines 190-195: the registered buffers, by key
RegisteredBuffers ==
    [k \in PrePopulated |-> CacheImageCoordinates(k[1], k[2])]

---------------------------------------------------------------------------
\* Calls of divide_feature on inputs drawn from bounded sets

PatchIdle ==
    /\ patch_kind = "none"
    /\ patch_layer = <<>>
    /\ patch_x = <<>>
    /\ patch_weight = <<>>
    /\ patch_status = "idle"
    /\ patch_out = <<>>

\* no WeightLayer under test
WlIdle ==
    /\ weight_layer = <<>> /\ wl_args = <<>> /\ wl_status = "idle" /\ wl_out = <<>>

\* no thread calls get_image_coordinates
GicIdle ==
    /\ gic_pc = <<>> /\ gic_arg = <<>> /\ gic_local = <<>>
    /\ gic_calls = 0 /\ gic_results = {}

DecIdle ==
    /\ feat_channels = <<>> /\ signal_channels = 0 /\ level_channels = <<>>
    /\ kernel_sizes = 0 /\ level_layers = 0 /\ with_out_fc = FALSE
    /\ weight_groups = <<>> /\ coords_res = <<>> /\ unify_level = <<>>
    /\ dec_status = "idle" /\ level_blocks = <<>> /\ weight_blocks = <<>>
    /\ ranges = <<>> /\ out_fc = <<>> /\ buffers = {}
    /\ fwd_pc = "idle" /\ fwd_level = 0 /\ fwd_x = <<>> /\ fwd_s = <<>>
    /\ fwd_p = <<>> /\ fwd_w = <<>> /\ trace = <<>> /\ passes = 0
    /\ coord_log = <<>>
    /\ WlIdle
    /\ coord_buf = <<>>
    /\ GicIdle

InitDivide ==
    /\ PatchIdle
    /\ DecIdle
    /\ in_feature \in 0..MaxIn
    /\ out_features \in SeqsUpTo(1..MaxFeat, MaxLen)
    /\ min_unit \in 1..MaxMinUnit
    /\ df_status = "call"
    /\ divided_in_features = <<>>

\* line 620: the assertion fails, nothing is returned
DivideAssertFail ==
    /\ df_status = "call"
    /\ ~Divisible(in_feature, min_unit)
    /\ df_status' = "AssertionError"
    /\ UNCHANGED <<in_feature, out_features, min_unit, divided_in_features>>
    /\ UNCHANGED <<patchVars, decVars>>

\* lines 621-651
DivideReturn ==
    /\ df_status = "call"
    /\ Divisible(in_feature, min_unit)
    /\ divided_in_features' = DivideFeature(in_feature, out_features, min_unit)
    /\ df_status' = "returned"
    /\ UNCHANGED <<in_feature, out_features, min_unit>>
    /\ UNCHANGED <<patchVars, decVars>>

NextDivide == DivideAssertFail \/ DivideReturn

SpecDivide == InitDivide /\ [][NextDivide]_vars

---------------------------------------------------------------------------
\* One patch convolution applied to a feature tensor and a weight grid drawn
\* from bounded sets. The module is built for the tensor's channel count.

DfIdle ==
    /\ in_feature = 0
    /\ out_features = <<>>
    /\ min_unit = 1
    /\ df_status = "idle"
    /\ divided_in_features = <<>>

PatchModules(c) ==
    {InvertedResidual(c, o, 3, 1) : o \in 1..MaxOutNc}
        \cup {NoPadding(c, o, 1, 1) : o \in 1..MaxOutNc}
        \cup {PatchConv2d(c, o, 1, 0, 1) : o \in 1..MaxOutNc}
        \cup {PatchConv2d(c, o, 3, 1, 1) : o \in 1..MaxOutNc}

InitPatch ==
    /\ DfIdle
    /\ DecIdle
    /\ patch_x \in {Shape(1, c, h, w) : c \in 1..2, h \in 1..MaxSide, w \in 1..MaxSide}
    /\ patch_layer \in PatchModules(patch_x.c)
    /\ patch_kind = patch_layer.kind
    /\ patch_weight \in {[fh |-> a, fw |-> b] : a \in 1..MaxGrid, b \in 1..MaxGrid}
    /\ patch_status = "call"
    /\ patch_out = <<>>

PatchRaise ==
    /\ patch_status = "call"
    /\ PatchApply(patch_layer, patch_x, patch_weight.fh, patch_weight.fw).err
    /\ patch_status' = "RuntimeError"
    /\ UNCHANGED <<patch_kind, patch_layer, patch_x, patch_weight, patch_out>>
    /\ UNCHANGED <<dfVars, decVars>>

PatchReturn ==
    /\ patch_status = "call"
    /\ LET y == PatchApply(patch_layer, patch_x, patch_weight.fh, patch_weight.fw)
       IN  /\ ~y.err
           /\ patch_out' = <<Shape(y.b, y.c, y.h, y.w)>>
    /\ patch_status' = "returned"
    /\ UNCHANGED <<patch_kind, patch_layer, patch_x, patch_weight>>
    /\ UNCHANGED <<dfVars, decVars>>

NextPatch == PatchRaise \/ PatchReturn

SpecPatch == InitPatch /\ [][NextPatch]_vars

---------------------------------------------------------------------------
\* A MultiScaleDecoder: construction, then forward passes

FwdIdle ==
    /\ fwd_pc = "idle" /\ fwd_level = 0 /\ fwd_x = <<>> /\ fwd_s = <<>>
    /\ fwd_p = <<>> /\ fwd_w = <<>> /\ trace = <<>> /\ passes = 0
    /\ coord_log = <<>>

ObjNew ==
    /\ dec_status = "new" /\ level_blocks = <<>> /\ weight_blocks = <<>>
    /\ ranges = <<>> /\ out_fc = <<>> /\ buffers = {}
    /\ coord_buf = <<>>

UnifyLevels == {<<>>} \cup {<<n>> : n \in 1..(MaxLevels + 1)}

\* the number of WeightLayers __init__ creates
NumWeightBlocks(L, ul) == IF ul = <<>> THEN L ELSE Min(L, ul[1])

Init ==
    /\ DfIdle
    /\ PatchIdle
    /\ level_channels \in SeqsUpTo(LevelChannelSet, MaxLevels)
    /\ feat_channels \in [1..Len(level_channels) -> FeatChannelSet]
    /\ kernel_sizes \in KernelSizeSet
    /\ level_layers \in LevelLayersSet
    /\ with_out_fc \in BOOLEAN
    /\ unify_level \in UnifyLevels
    /\ weight_groups = [i \in 1..NumWeightBlocks(Len(level_channels), unify_level) |-> 1]
    /\ signal_channels \in SignalChannelSet
    /\ coords_res = <<>>
    /\ ObjNew
    /\ FwdIdle
    /\ WlIdle
    /\ GicIdle

\* lines 117-202: __init__
Construct ==
    /\ dec_status = "new"
    /\ dec_status' = CtorStatus
    /\ IF CtorStatus = "built"
       THEN LET o == Built(unify_level[1])
            IN  /\ level_blocks' = o.level_blocks
                /\ ranges' = o.ranges
                /\ out_fc' = o.out_fc
                /\ weight_blocks' = Signalled(o.weight_blocks)
                /\ buffers' = PrePopulated
                /\ coord_buf' = RegisteredBuffers
       ELSE UNCHANGED <<level_blocks, weight_blocks, ranges, out_fc, buffers,
                        coord_buf>>
    /\ UNCHANGED <<dfVars, patchVars, argVars, fwdVars, wlVars, gicVars>>

\* a call forward(x, s): x is the pyramid under a finest resolution drawn
\* from RS, s a signal with the constructed channel count and a grid drawn
\* from GS
ForwardCall(RS, GS) ==
    /\ dec_status = "built"
    /\ fwd_pc \in {"idle", "returned", "RuntimeError"}
    /\ passes < MaxPasses
    /\ \E res \in RS, grid \in GS :
          /\ fwd_x' = [i \in 1..Levels |->
                          Shape(1, feat_channels[i], res[1] \div Pow2(i - 1),
                                res[2] \div Pow2(i - 1))]
          /\ fwd_s' = Shape(1, signal_channels, grid[1], grid[2])
    /\ fwd_p' = <<>>                                    \* line 224
    /\ fwd_w' = <<>>
    /\ fwd_level' = 0
    /\ trace' = <<>>
    /\ passes' = passes + 1
    /\ fwd_pc' = "level"
    /\ UNCHANGED <<dfVars, patchVars, argVars, objVars, coord_log>>
    /\ UNCHANGED <<wlVars, coord_buf, gicVars>>

ForwardBegin == ForwardCall(ResSet, GridSet)

\* lines 225-249: one pass through the loop body
ForwardLevel ==
    /\ fwd_pc = "level"
    /\ fwd_level < Levels
    /\ LET u   == unify_level[1]
           level_block == level_blocks[fwd_level + 1]
           wbi == WeightBlockIndex(fwd_level, u)
           xl  == fwd_x[Len(fwd_x) - fwd_level]         \* x[-level - 1]
           \* lines 230-236
           pin == IF fwd_p = <<>> THEN xl
                  ELSE Shape(xl.b, xl.c + fwd_p[1].c, xl.h, xl.w)
           \* line 239
           key == <<pin.h, pin.w>>
           pc  == Shape(pin.b, pin.c + 2, pin.h, pin.w)
           \* lines 242-249
           gen == Generates(fwd_level, u)
           nc  == ApplySignal2Weights(weight_blocks[wbi + 1], fwd_s.c)
           w2  == IF gen THEN <<[block |-> wbi, nc |-> nc]>> ELSE fwd_w
           sl  == IF fwd_level < u - 1 THEN [lo |-> 0, hi |-> w2[1].nc]
                  ELSE UnifiedSlice(fwd_level, u)
           wn  == Min(sl.hi, w2[1].nc) - Min(sl.lo, w2[1].nc)
           y   == IF w2[1].nc = 0 THEN Raised
                  ELSE LevelBlockForward(level_block, pc, fwd_s.h, fwd_s.w, wn)
           evW == [ev |-> "weight", level |-> fwd_level, block |-> wbi,
                   lo |-> 0, hi |-> 0, ins |-> <<>>]
           ins == IF w2[1].nc = 0
                     \/ wn < MetaSequentialHyperParams(level_block)
                  THEN <<>>
                  ELSE StageInputs(level_block, 1, pc, fwd_s.h, fwd_s.w)
           evB == [ev |-> "block", level |-> fwd_level, block |-> w2[1].block,
                   lo |-> sl.lo, hi |-> sl.hi, ins |-> ins]
       IN  /\ coord_log' = Append(coord_log,
                                  [key |-> key, computed |-> ComputesGrid(key)])
           /\ buffers' = BuffersAfterGet(key)
           /\ fwd_w' = w2
           /\ trace' = IF gen THEN trace \o <<evW, evB>> ELSE Append(trace, evB)
           /\ IF y.err
              THEN /\ fwd_pc' = "RuntimeError"
                   /\ UNCHANGED <<fwd_p, fwd_level>>
              ELSE /\ fwd_p' = <<Shape(y.b, y.c, y.h, y.w)>>
                   /\ fwd_level' = fwd_level + 1
                   /\ fwd_pc' = IF fwd_level + 1 < Levels THEN "level" ELSE "last"
    /\ UNCHANGED <<dfVars, patchVars, argVars, fwd_x, fwd_s, passes>>
    /\ UNCHANGED <<dec_status, level_blocks, weight_blocks, ranges, out_fc>>
    /\ UNCHANGED <<wlVars, coord_buf, gicVars>>

\* lines 251-259: the output head, the final resize, the return. The head
\* is called as out_fc(p, s): its weights are the signal itself.
ForwardLast ==
    /\ fwd_pc = "last"
    /\ LET y == IF out_fc = <<>>
                THEN Result(fwd_p[1].b, fwd_p[1].c, fwd_p[1].h, fwd_p[1].w)
                ELSE LevelBlockForward(out_fc, fwd_p[1], fwd_s.h, fwd_s.w,
                                       fwd_s.c)
       IN  IF y.err
           THEN /\ fwd_pc' = "RuntimeError"
                /\ UNCHANGED fwd_p
           ELSE /\ fwd_pc' = "returned"
                /\ fwd_p' = <<Shape(y.b, y.c, fwd_x[1].h, fwd_x[1].w)>>
    /\ UNCHANGED <<dfVars, patchVars, argVars, objVars>>
    /\ UNCHANGED <<fwd_level, fwd_x, fwd_s, fwd_w, trace, passes, coord_log>>
    /\ UNCHANGED <<wlVars, coord_buf, gicVars>>

Next == Construct \/ ForwardBegin \/ ForwardLevel \/ ForwardLast

Spec == Init /\ [][Next]_vars

\* Decoders built with and without pre-populated coordinate buffers, fed
\* pyramids of several resolutions
InitCache ==
    /\ DfIdle
    /\ PatchIdle
    /\ level_channels \in {<<2>>, <<2, 2>>}
    /\ feat_channels = [i \in 1..Len(level_channels) |-> 1]
    /\ kernel_sizes = 1
    /\ level_layers = 1
    /\ with_out_fc = FALSE
    /\ unify_level \in {<<>>, <<1>>}
    /\ weight_groups = <<1>>
    /\ signal_channels \in SignalChannelSet
    /\ coords_res \in CacheCoordsRes
    /\ ObjNew
    /\ FwdIdle
    /\ WlIdle
    /\ GicIdle

ForwardBeginCache == ForwardCall(CacheResSet, CacheGridSet)

NextCache == Construct \/ ForwardBeginCache \/ ForwardLevel \/ ForwardLast

SpecCache == InitCache /\ [][NextCache]_vars

---------------------------------------------------------------------------
\* One decoder, built with or without pre-populated coordinate buffers, and
\* threads that call get_image_coordinates on it concurrently. Every
\* statement of the method is one step of the calling thread.

InitCoords ==
    /\ DfIdle
    /\ PatchIdle
    /\ level_channels \in {<<2>>, <<2, 2>>}
    /\ feat_channels = [i \in 1..Len(level_channels) |-> 1]
    /\ kernel_sizes = 1
    /\ level_layers = 1
    /\ with_out_fc = FALSE
    /\ unify_level = <<1>>
    /\ weight_groups = <<1>>
    /\ signal_channels \in SignalChannelSet
    /\ coords_res \in CoordsResSet
    /\ ObjNew
    /\ FwdIdle
    /\ WlIdle
    /\ gic_pc = [t \in Threads |-> "idle"]
    /\ gic_arg = [t \in Threads |-> <<>>]
    /\ gic_local = [t \in Threads |-> <<>>]
    /\ gic_calls = 0
    /\ gic_results = {}

\* line 211: thread t enters get_image_coordinates(b, h, w, device)
GicCall(t) ==
    /\ dec_status = "built"
    /\ gic_pc[t] = "idle"
    /\ gic_calls < MaxCalls
    /\ \E b \in BatchSet, key \in CoordKeySet :
          gic_arg' = [gic_arg EXCEPT ![t] = [b |-> b, h |-> key[1], w |-> key[2]]]
    /\ gic_local' = [gic_local EXCEPT ![t] = <<>>]
    /\ gic_calls' = gic_calls + 1
    /\ gic_pc' = [gic_pc EXCEPT ![t] = "hasattr"]
    /\ UNCHANGED <<dfVars, patchVars, argVars, objVars, fwdVars, wlVars>>
    /\ UNCHANGED <<coord_buf,
                   gic_results>>

\* lines 212-213: hasattr(self, cache)
GicHasattr(t) ==
    /\ gic_pc[t] = "hasattr"
    /\ gic_pc' = [gic_pc EXCEPT ![t] =
                     IF <<gic_arg[t].h, gic_arg[t].w>> \in DOMAIN coord_buf
                     THEN "cached" ELSE "x"]
    /\ UNCHANGED <<dfVars, patchVars, argVars, objVars, fwdVars, wlVars>>
    /\ UNCHANGED <<coord_buf,
                   gic_arg, gic_local, gic_calls, gic_results>>

\* line 214: return getattr(self, cache).expand(b, -1, -1, -1)
GicReturnCached(t) ==
    /\ gic_pc[t] = "cached"
    /\ LET key == <<gic_arg[t].h, gic_arg[t].w>>
       IN  gic_results' = gic_results \cup
               {[key |-> key, b |-> gic_arg[t].b, grid |-> coord_buf[key]]}
    /\ gic_pc' = [gic_pc EXCEPT ![t] = "idle"]
    /\ UNCHANGED <<dfVars, patchVars, argVars, objVars, fwdVars, wlVars>>
    /\ UNCHANGED <<coord_buf,
                   gic_arg, gic_local, gic_calls>>

\* line 216: x = torch.linspace(-1, 1, steps=w, device=device)
GicLinSpaceX(t) ==
    /\ gic_pc[t] = "x"
    /\ gic_local' = [gic_local EXCEPT ![t] = [x |-> LinSpace(gic_arg[t].w)]]
    /\ gic_pc' = [gic_pc EXCEPT ![t] = "y"]
    /\ UNCHANGED <<dfVars, patchVars, argVars, objVars, fwdVars, wlVars>>
    /\ UNCHANGED <<coord_buf,
                   gic_arg, gic_calls, gic_results>>

\* line 217: y = torch.linspace(-1, 1, steps=h, device=device)
GicLinSpaceY(t) ==
    /\ gic_pc[t] = "y"
    /\ gic_local' = [gic_local EXCEPT ![t] =
                        [x |-> gic_local[t].x, y |-> LinSpace(gic_arg[t].h)]]
    /\ gic_pc' = [gic_pc EXCEPT ![t] = "stack"]
    /\ UNCHANGED <<dfVars, patchVars, argVars, objVars, fwdVars, wlVars>>
    /\ UNCHANGED <<coord_buf,
                   gic_arg, gic_calls, gic_results>>

\* lines 218-220: grid = stack(...); return grid.expand(b, -1, -1, -1).
\* Nothing is registered: the buffers stay as they are.
GicReturnComputed(t) ==
    /\ gic_pc[t] = "stack"
    /\ LET key == <<gic_arg[t].h, gic_arg[t].w>>
       IN  gic_results' = gic_results \cup
               {[key |-> key, b |-> gic_arg[t].b,
                 grid |-> GetStack(gic_local[t].x, gic_local[t].y)]}
    /\ gic_pc' = [gic_pc EXCEPT ![t] = "idle"]
    /\ UNCHANGED <<dfVars, patchVars, argVars, objVars, fwdVars, wlVars>>
    /\ UNCHANGED <<coord_buf,
                   gic_arg, gic_local, gic_calls>>

NextCoords ==
    \/ Construct
    \/ \E t \in Threads :
          \/ GicCall(t) \/ GicHasattr(t) \/ GicReturnCached(t)
          \/ GicLinSpaceX(t) \/ GicLinSpaceY(t) \/ GicReturnComputed(t)

SpecCoords == InitCoords /\ [][NextCoords]_vars

---------------------------------------------------------------------------
\* One WeightLayer: WeightLayer(target_params), init_signal2weights(
\* signal_channels, signal_index, groups), then forward(s) on a signal that
\* has the slice's channels

InitWeight ==
    /\ DfIdle
    /\ PatchIdle
    /\ feat_channels = <<>> /\ signal_channels = 0 /\ level_channels = <<>>
    /\ kernel_sizes = 0 /\ level_layers = 0 /\ with_out_fc = FALSE
    /\ weight_groups = <<>> /\ coords_res = <<>> /\ unify_level = <<>>
    /\ dec_status = "idle" /\ level_blocks = <<>> /\ weight_blocks = <<>>
    /\ ranges = <<>> /\ out_fc = <<>> /\ buffers = {}
    /\ FwdIdle
    /\ coord_buf = <<>>
    /\ GicIdle
    /\ \E tp \in 1..MaxTarget : weight_layer = WeightLayer(tp)
    /\ wl_args \in [signal_channels : 1..MaxSignal, signal_index : 0..1,
                     groups : 1..MaxGroups]
    /\ wl_status = "new"
    /\ wl_out = <<>>

\* lines 296-299 when nn.Conv2d raises: in_channels and out_channels must be
\* divisible by groups. The two fields assigned before stay assigned.
WlInitRaise ==
    /\ wl_status = "new"
    /\ \/ wl_args.signal_channels % wl_args.groups # 0
       \/ NextMultiply(weight_layer.target_params, wl_args.groups)
              % wl_args.groups # 0
    /\ weight_layer' = [weight_layer EXCEPT
                           !.signal_channels = wl_args.signal_channels,
                           !.signal_index = wl_args.signal_index]
    /\ wl_status' = "ValueError"
    /\ UNCHANGED <<wl_args, wl_out>>
    /\ UNCHANGED <<dfVars, patchVars, argVars, objVars, fwdVars, coord_buf,
                   gicVars>>

\* lines 295-299: WeightLayer.init_signal2weights
WlInit ==
    /\ wl_status = "new"
    /\ wl_args.signal_channels % wl_args.groups = 0
    /\ NextMultiply(weight_layer.target_params, wl_args.groups)
           % wl_args.groups = 0
    /\ weight_layer' = WeightLayerInit(weight_layer, wl_args.signal_channels,
                                       wl_args.signal_index, wl_args.groups)
    /\ wl_status' = "initialised"
    /\ UNCHANGED <<wl_args, wl_out>>
    /\ UNCHANGED <<dfVars, patchVars, argVars, objVars, fwdVars, coord_buf,
                   gicVars>>

\* lines 301-309: WeightLayer.forward(s), s having the channels up to the
\* slice's end: the convolution generates weight_channels channels, the
\* slice [:, :target_params] is returned
WlForward ==
    /\ wl_status = "initialised"
    /\ wl_out' = <<[generated |-> weight_layer.weight_channels,
                    returned |-> ApplySignal2Weights(weight_layer,
                                     weight_layer.signal_index
                                         + weight_layer.signal_channels)]>>
    /\ wl_status' = "applied"
    /\ UNCHANGED <<weight_layer, wl_args>>
    /\ UNCHANGED <<dfVars, patchVars, argVars, objVars, fwdVars, coord_buf,
                   gicVars>>

NextWeight == WlInitRaise \/ WlInit \/ WlForward

SpecWeight == InitWeight /\ [][NextWeight]_vars

---------------------------------------------------------------------------
\* Decoders built with a per-generator weight_groups list and several signal
\* widths, then run

InitGroups ==
    /\ DfIdle
    /\ PatchIdle
    /\ level_channels \in GroupsLevelChannels
    /\ feat_channels = [i \in 1..Len(level_channels) |-> 1]
    /\ kernel_sizes = 1
    /\ level_layers = 1
    /\ with_out_fc = FALSE
    /\ unify_level \in {<<n>> : n \in 1..(Len(level_channels) + 1)}
    /\ weight_groups \in [1..NumWeightBlocks(Len(level_channels), unify_level)
                              -> GroupFactorSet]
    /\ signal_channels \in GroupsSignalSet
    /\ coords_res = <<>>
    /\ ObjNew
    /\ FwdIdle
    /\ WlIdle
    /\ GicIdle

ForwardBeginGroups == ForwardCall(ResSet, CacheGridSet)

NextGroups == Construct \/ ForwardBeginGroups \/ ForwardLevel \/ ForwardLast

SpecGroups == InitGroups /\ [][NextGroups]_vars

---------------------------------------------------------------------------
\* Properties of divide_feature (checked under SpecDivide)

Returned == df_status = "returned"
Units == in_feature \div min_unit
\* the indices of the group the loop handles last (it absorbs the remainder)
LastGroupIdx == LET g == OutFeatGroups(out_features) IN g[Len(g)].idx
MinOut == CHOOSE x \in {out_features[i] : i \in DOMAIN out_features} :
              \A i \in DOMAIN out_features : x <= out_features[i]

\* C1: for in_feature divisible by min_unit and a non-empty list of positive
\* out_features, the returned array sums to exactly in_feature (a single
\* consumer receives the whole budget).
C1_SumIsInFeature ==
    Returned => SeqSum(divided_in_features) = in_feature

\* C2 (as claimed): a consumer with a strictly larger out_features value never
\* gets a strictly smaller allocation than one with a smaller value.
C2_Monotone ==
    Returned =>
        \A i, j \in DOMAIN out_features :
            out_features[i] > out_features[j]
                => divided_in_features[i] >= divided_in_features[j]

\* C2 (amended): when every consumer's proportional share is at least one
\* unit (min(out_features) * units >= sum(out_features)), a consumer with a
\* strictly larger out_features value never gets a strictly smaller allocation
\* than a consumer with a smaller value that is outside the group handled
\* last, the one that absorbs the remainder.
C2_MonotoneOutsideLastGroup ==
    (Returned /\ MinOut * Units >= SeqSum(out_features)) =>
        \A i, j \in DOMAIN out_features :
            (out_features[i] > out_features[j] /\ j \notin LastGroupIdx)
                => divided_in_features[i] >= divided_in_features[j]

C2_Witness ==
    /\ Returned
    /\ MinOut * Units >= SeqSum(out_features)
    /\ \E i, j \in DOMAIN out_features :
           /\ out_features[i] > out_features[j]
           /\ j \notin LastGroupIdx
           /\ divided_in_features[i] > divided_in_features[j]
           /\ divided_in_features[j] > 0

\* C3: every entry of the returned array is an integer multiple of min_unit.
C3_MultiplesOfMinUnit ==
    Returned =>
        \A j \in DOMAIN divided_in_features :
            divided_in_features[j] % min_unit = 0

C3_Witness ==
    /\ Returned
    /\ min_unit > 1
    /\ Len(out_features) > 1
    /\ \A j \in DOMAIN divided_in_features : divided_in_features[j] >= min_unit

\* C4: two consumers with equal out_features values receive equal allocations.
C4_EqualFeaturesEqualShares ==
    Returned =>
        \A i, j \in DOMAIN out_features :
            out_features[i] = out_features[j]
                => divided_in_features[i] = divided_in_features[j]

C4_Witness ==
    /\ Returned
    /\ \E i, j \in DOMAIN out_features :
           /\ i # j
           /\ out_features[i] = out_features[j]
           /\ divided_in_features[i] > 0
    /\ \E i, j \in DOMAIN out_features : out_features[i] # out_features[j]
    /\ \A j \in DOMAIN divided_in_features : divided_in_features[j] > 0

\* C5: the call fails, and returns no allocation, whenever in_feature is not
\* divisible by min_unit, and it never fails when in_feature is divisible.
C5_FailsIffNotDivisible ==
    df_status # "call" =>
        /\ (in_feature % min_unit # 0) =>
               (df_status = "AssertionError" /\ divided_in_features = <<>>)
        /\ (in_feature % min_unit = 0) => df_status = "returned"

C5_Witness ==
    /\ df_status = "AssertionError"
    /\ in_feature % min_unit # 0
    /\ divided_in_features = <<>>

---------------------------------------------------------------------------
\* Properties of the patch convolutions (checked under SpecPatch)

NotDivisible ==
    \/ patch_x.h % patch_weight.fh # 0
    \/ patch_x.w % patch_weight.fw # 0

\* C9: whenever the feature tensor's height is not an exact multiple of the
\* weight grid height fh (or its width of fw), applying a patch convolution
\* (HyperPatch.forward, HyperPatchNoPadding.forward,
\* HyperPatchInvertedResidual.conv) ends in an error and produces no output.
C9_NotDivisibleRaises ==
    (patch_status \in {"returned", "RuntimeError"} /\ NotDivisible) =>
        (patch_status = "RuntimeError" /\ patch_out = <<>>)

\* The same statement for HyperPatchInvertedResidual.conv alone (it is
\* violated too: conv returns a tensor with fewer channels than out_nc).
C9_InvertedResidualRaises ==
    (patch_kind = "HyperPatchInvertedResidual"
        /\ patch_status \in {"returned", "RuntimeError"} /\ NotDivisible) =>
        (patch_status = "RuntimeError" /\ patch_out = <<>>)

---------------------------------------------------------------------------
\* Properties of the decoder (checked under Spec)

IsBuilt == dec_status = "built"
\* unify_level is an integer with 1 <= unify_level <= levels
UnifyInRange ==
    unify_level # <<>> /\ 1 <= unify_level[1] /\ unify_level[1] <= Levels

BlockEvents == SelectSeq(trace, LAMBDA e : e.ev = "block")
\* the positions in the trace where the WeightLayer with index b is invoked
Invocations(b) ==
    {n \in DOMAIN trace : trace[n].ev = "weight" /\ trace[n].block = b}

\* C6: in one forward pass with 1 <= unify_level <= levels, the levels are
\* processed in order 0..levels-1; every level l < unify_level-1 invokes its
\* own dedicated WeightLayer; the shared WeightLayer is invoked exactly once
\* in the pass, at level unify_level-1 and before any unified level's block
\* runs; every level l >= unify_level-1 uses the slice
\* [_ranges[i], _ranges[i+1]) with i = l - unify_level + 1 of that output.
C6_SharedGeneratorOncePerPass ==
    (IsBuilt /\ UnifyInRange) =>
        LET u == unify_level[1]
            shared == Invocations(u - 1)
        IN  /\ \A k \in DOMAIN BlockEvents : BlockEvents[k].level = k - 1
            /\ Cardinality(shared) <= 1
            /\ \A n \in shared : trace[n].level = u - 1
            /\ \A n \in DOMAIN trace :
                  trace[n].ev = "block" =>
                      LET l == trace[n].level
                          i == l - u + 1
                      IN  IF l < u - 1
                          THEN /\ trace[n].block = l
                               /\ n > 1
                               /\ trace[n - 1].ev = "weight"
                               /\ trace[n - 1].block = l
                               /\ trace[n - 1].level = l
                               /\ Cardinality(Invocations(l)) = 1
                          ELSE /\ trace[n].block = u - 1
                               /\ \E m \in shared : m < n
                               /\ trace[n].lo = ranges[i + 1]
                               /\ trace[n].hi = ranges[i + 2]
            /\ fwd_pc \in {"last", "returned"} =>
                  /\ Len(BlockEvents) = Levels
                  /\ Cardinality(shared) = 1

C6_Witness ==
    /\ IsBuilt /\ UnifyInRange
    /\ Levels = 3 /\ unify_level[1] = 2
    /\ fwd_pc = "returned"
    /\ Len(trace) = 5
    /\ passes = 2

\* C7: with unify_level None (the constructor default) the decoder is built
\* with no sharing: construction succeeds, every level gets its own dedicated
\* weight generator, and forward invokes one dedicated generator per level
\* and no shared one.
C7_NoneBuildsWithoutSharing ==
    (unify_level = <<>> /\ dec_status # "new") =>
        /\ dec_status = "built"
        /\ Len(weight_blocks) = Levels
        /\ ranges = <<0>>
        /\ \A n \in DOMAIN trace :
              trace[n].ev = "block" =>
                  /\ trace[n].block = trace[n].level
                  /\ Cardinality(Invocations(trace[n].level)) = 1

\* C8 (state part): after construction with 1 <= unify_level <= levels,
\* _ranges starts at 0, is increasing, has one more entry than there are
\* unified levels, each consecutive difference is the hyper_params of the
\* corresponding unified level, and its last entry is the shared
\* generator's target_params.
RangesPartition ==
    (IsBuilt /\ UnifyInRange) =>
        LET u == unify_level[1]
            unified == Levels - u + 1
        IN  /\ ranges[1] = 0
            /\ Len(ranges) = unified + 1
            /\ \A i \in 1..unified :
                  /\ ranges[i] < ranges[i + 1]
                  /\ ranges[i + 1] - ranges[i]
                        = SeqSum([j \in DOMAIN level_blocks[u + i - 1] |->
                                     level_blocks[u + i - 1][j].hyper_params])
            /\ Len(weight_blocks) = u
            /\ Last(ranges) = weight_blocks[u].target_params

\* C8: the range table partitions the shared generator's output among the
\* unified levels (RangesPartition), and forward never modifies it.
C8_RangesPartitionAndFrozen ==
    /\ []RangesPartition
    /\ [][IsBuilt => ranges' = ranges]_vars

C8_Witness ==
    /\ IsBuilt /\ UnifyInRange
    /\ Levels = 3 /\ unify_level[1] = 1
    /\ Len(ranges) = 4
    /\ fwd_pc = "returned"

---------------------------------------------------------------------------
\* Properties of the coordinate cache (checked under SpecCache)

---------------------------------------------------------------------------
\* Properties of concurrent coordinate requests (checked under SpecCoords)

\* C11: any two get_image_coordinates calls for the same (h, w) return
\* identical grids, the grid of values linearly spaced in [-1, 1] that
\* cache_image_coordinates builds for (h, w), whether the key was
\* pre-populated or not and however the calls interleave (two concurrent
\* first calls for one key included); the registered buffers stay exactly
\* the pre-populated grids.
C11_SameKeySameGrid ==
    /\ \A r1, r2 \in gic_results : r1.key = r2.key => r1.grid = r2.grid
    /\ \A r \in gic_results :
          r.grid = CacheImageCoordinates(r.key[1], r.key[2])
    /\ IsBuilt =>
          /\ DOMAIN coord_buf = PrePopulated
          /\ buffers = PrePopulated
          /\ \A k \in DOMAIN coord_buf :
                coord_buf[k] = CacheImageCoordinates(k[1], k[2])

\* two calls for one key that was not pre-populated were in flight at the
\* same time and both have returned; a pre-populated key was served too
C11_Witness ==
    /\ IsBuilt
    /\ \E r1, r2 \in gic_results :
          /\ r1.key = r2.key /\ r1.b # r2.b
          /\ r1.key \notin PrePopulated
    /\ \E r \in gic_results : r.key \in PrePopulated
    /\ gic_calls = MaxCalls

---------------------------------------------------------------------------
\* Properties of one WeightLayer (checked under SpecWeight)

\* C12: for positive target_params and groups, init_signal2weights sizes the
\* 1x1 convolution's output as the smallest multiple of groups that is
\* >= target_params, and forward returns exactly the first target_params
\* channels, discarding between 0 and groups-1 generated channels.
C12_RoundUpThenTruncate ==
    /\ wl_status \in {"initialised", "applied"} =>
          /\ weight_layer.weight_channels % weight_layer.groups = 0
          /\ weight_layer.weight_channels >= weight_layer.target_params
          /\ weight_layer.weight_channels - weight_layer.groups
                < weight_layer.target_params
    /\ wl_status = "applied" =>
          /\ wl_out[1].generated = weight_layer.weight_channels
          /\ wl_out[1].returned = weight_layer.target_params
          /\ wl_out[1].generated - wl_out[1].returned
                \in 0..(weight_layer.groups - 1)

\* a call that discards groups-1 > 1 generated channels
C12_Witness ==
    /\ wl_status = "applied"
    /\ weight_layer.groups > 2
    /\ wl_out[1].generated - wl_out[1].returned = weight_layer.groups - 1
    /\ wl_out[1].returned = weight_layer.target_params

---------------------------------------------------------------------------
\* Properties of the forward pass (checked under Spec)

ForwardEnded == fwd_pc \in {"returned", "RuntimeError"}

\* C13: for a decoder fed a feature pyramid and a signal tensor matching its
\* configuration, forward returns a tensor whose spatial size is that of the
\* finest feature map x[0] and whose channel count is num_classes, with and
\* without the output head.
C13_ForwardShape ==
    (IsBuilt /\ ForwardEnded) =>
        /\ fwd_pc = "returned"
        /\ fwd_p[1].c = NumClasses
        /\ fwd_p[1].h = fwd_x[1].h
        /\ fwd_p[1].w = fwd_x[1].w

\* The same statement for decoders with one stage per level and no output
\* head (it holds there).
C13_SingleStageNoHead ==
    (IsBuilt /\ ForwardEnded /\ level_layers = 1 /\ ~with_out_fc) =>
        /\ fwd_pc = "returned"
        /\ fwd_p[1].c = NumClasses
        /\ fwd_p[1].h = fwd_x[1].h
        /\ fwd_p[1].w = fwd_x[1].w

\* The same statement for decoders with one stage per level and the output
\* head.
C13_SingleStageWithHead ==
    (IsBuilt /\ ForwardEnded /\ level_layers = 1 /\ with_out_fc) =>
        /\ fwd_pc = "returned"
        /\ fwd_p[1].c = NumClasses
        /\ fwd_p[1].h = fwd_x[1].h
        /\ fwd_p[1].w = fwd_x[1].w

\* C15: in forward, every stage of a level receives the channel count it was
\* constructed with: the first stage the previous level's output channels
\* (if any) plus the feature map's channels plus 2 coordinate channels,
\* every later stage the previous stage's output.
C15_StageInputsMatch ==
    IsBuilt =>
        \A n \in DOMAIN trace :
            trace[n].ev = "block" =>
                LET layers == level_blocks[trace[n].level + 1]
                    feat   == fwd_x[Len(fwd_x) - trace[n].level].c
                    prev   == IF trace[n].level = 0 THEN 0
                              ELSE Last(level_blocks[trace[n].level]).out_nc
                IN  \A j \in DOMAIN trace[n].ins :
                        /\ trace[n].ins[j] = layers[j].in_nc
                        /\ trace[n].ins[j] =
                              IF j = 1 THEN prev + feat + 2
                              ELSE layers[j - 1].out_nc

\* The same statement for the first stage of every level (it holds there).
C15_FirstStageInputsMatch ==
    IsBuilt =>
        \A n \in DOMAIN trace :
            (trace[n].ev = "block" /\ trace[n].ins # <<>>) =>
                trace[n].ins[1] = level_blocks[trace[n].level + 1][1].in_nc

---------------------------------------------------------------------------
\* The remainder of divide_feature (checked under SpecDivide)

\* the group the loop handles last, and the units it holds after the loop
LastGroup == LET g == OutFeatGroups(out_features) IN g[Len(g)]
LastGroupUnits ==
    LET u == OutGroupUnits(in_feature, out_features, min_unit)
    IN  u[Len(u)]

\* C14: for a valid input with at least two distinct out_features values,
\* the group that absorbs the units left over after the proportional
\* round-down of the other groups is the one whose out_features value is
\* minimal.
C14_RemainderToSmallest ==
    (/\ Returned
     /\ Cardinality({out_features[i] : i \in DOMAIN out_features}) >= 2
     /\ LastGroupUnits > Cardinality(LastGroup.idx)) =>
        LastGroup.k = MinOut

---------------------------------------------------------------------------
\* Properties of the signal slices (checked under SpecGroups)

\* the signal channels of WeightLayer i: the set signal_index ..
\* signal_index + signal_channels - 1
SignalSlice(i) ==
    weight_blocks[i].signal_index
        .. (weight_blocks[i].signal_index + weight_blocks[i].signal_channels - 1)

\* C16: after construction, the signal channel slices of the weight
\* generators, in weight_blocks order, are pairwise disjoint and contiguous:
\* the first starts at channel 0, each next one starts where the previous
\* ends, each width is the corresponding divide_feature entry, and no slice
\* extends beyond the signal's channel count.
C16_SignalSlicesContiguous ==
    IsBuilt =>
        LET sf == DivideFeature(signal_channels,
                                [i \in DOMAIN weight_blocks |->
                                    weight_blocks[i].target_params],
                                SeqMax(weight_groups))
        IN  /\ weight_blocks[1].signal_index = 0
            /\ \A i \in DOMAIN weight_blocks :
                  /\ weight_blocks[i].signal_channels = sf[i]
                  /\ weight_blocks[i].signal_index
                        + weight_blocks[i].signal_channels <= signal_channels
                  /\ i < Len(weight_blocks) =>
                        weight_blocks[i + 1].signal_index
                            = weight_blocks[i].signal_index
                                + weight_blocks[i].signal_channels
            /\ \A i, j \in DOMAIN weight_blocks :
                  i # j => SignalSlice(i) \cap SignalSlice(j) = {}

\* three generators with non-empty slices of a 12-channel signal, not all
\* of group factor 1, after a forward pass has returned
C16_Witness ==
    /\ IsBuilt
    /\ Len(weight_blocks) = 3
    /\ \A i \in DOMAIN weight_blocks : weight_blocks[i].signal_channels > 0
    /\ \E i \in DOMAIN weight_blocks : weight_blocks[i].groups > 1
    /\ weight_blocks[3].signal_index > weight_blocks[2].signal_index
    /\ fwd_pc = "returned"

\* C17: given signal_channels divisible by min_unit = max(weight_groups) and
\* a per-generator weight_groups list, construction assigns every weight
\* generator a signal channel count that is a positive multiple of its own
\* groups factor.
C17_GroupMultiples ==
    (dec_status # "new" /\ signal_channels % SeqMax(weight_groups) = 0) =>
        /\ IsBuilt
        /\ \A i \in DOMAIN weight_blocks :
              /\ weight_blocks[i].signal_channels > 0
              /\ weight_blocks[i].signal_channels % weight_groups[i] = 0

\* The same statement when every group factor divides max(weight_groups) and
\* no generator's share comes out below one unit (it holds there).
C17_DivisorsOfMaxGetMultiples ==
    (/\ IsBuilt
     /\ \A i \in DOMAIN weight_groups :
           SeqMax(weight_groups) % weight_groups[i] = 0) =>
        \A i \in DOMAIN weight_blocks :
            weight_blocks[i].signal_channels % weight_groups[i] = 0

====
